---------------------------- MODULE Spec2Model ----------------------------
(***************************************************************************)
(* filmow-to-csv: the page-prefetching subsystem of src/filmow-to-csv.py.  *)
(*                                                                         *)
(* prefetch(urls, workers) starts `workers` daemon threads, each running   *)
(* prefetchPages(chunk) on an interleaved chunk of urls.  A prefetcher     *)
(* records every page of its chunk in the shared dictionary                *)
(* _prefetchedPages and counts itself in _activePrefetchers while it runs. *)
(* The main thread reads pages with prefetchedPage(url).                   *)
(*                                                                         *)
(* Threads interleave at the granularity of the source lines: a program    *)
(* counter value "Lnnn" means "about to execute line nnn".                 *)
(***************************************************************************)
EXTENDS Integers, Sequences, FiniteSets, TLC

(***************************************************************************)
(* Bounds of the model.                                                    *)
(***************************************************************************)
MaxURLs == 3        \* urls handed to prefetch() in one run, over all its calls
MaxBatches == 1     \* calls of prefetch() in one run
MaxThreads == 2     \* prefetcher threads started in one run
MaxChunk == 5       \* longest chunk of the single-prefetcher specification
MaxList == 4        \* longest list handed to deduplicatedList() on its own
MaxPages == 2       \* list pages one entries() call is followed through
MaxPerPage == 2     \* entry links on one list page
MaxEntries == 2     \* tuples one collect() call is given
MaxArgs == 4        \* command line arguments of one run of the script
MaxFound == 1       \* entries one entries() call of a whole run returns

(***************************************************************************)
(* Values.                                                                 *)
(***************************************************************************)
URLs == {"u1", "u2"}

Absent == "absent"      \* url not in _prefetchedPages
Empty == ""             \* r''
Body == "body"          \* page.text of a response that is truthy

NoThread == 0           \* holder of a Lock() that is not held; threads are 1, 2, ...

\* what `page` can be after line 125-127: None (requests.get raised), a
\* Response with ok status (truthy), a Response with an error status (falsy)
Outcomes == {"None", "ok", "bad"}

VARIABLES
    activePrefetchers,      \* _activePrefetchers
    activePrefetchersLock,  \* _activePrefetchersLock: NoThread or its holder
    prefetchedPages,        \* _prefetchedPages: [URLs -> {Absent, Empty, Body}]
    prefetchingLock,        \* _prefetchingLock: NoThread or its holder
    prefetchers,            \* the started threads: sequence of records
    main,                   \* the main thread: its position and its locals
    batches                 \* the arguments of the prefetch() calls so far

vars == <<activePrefetchers, activePrefetchersLock, prefetchedPages,
          prefetchingLock, prefetchers, main, batches>>

Threads == 1..Len(prefetchers)

\* the threads started by the b-th prefetch() call
ThreadsOf(b) == {w \in Threads : prefetchers[w].batch = b}

\* the b-th prefetch() call started threads and they have all ended
BatchCompleted(b) ==
    /\ batches[b].workers >= 1
    /\ \A w \in ThreadsOf(b) : prefetchers[w].pc = "done"

\* the urls of the b-th prefetch() call
BatchURLs(b) == {batches[b].urls[j] : j \in 1..Len(batches[b].urls)}

(***************************************************************************)
(* Pure helpers.                                                           *)
(***************************************************************************)

\* all sequences over S of length 0..n
RECURSIVE SeqsUpTo(_, _)
SeqsUpTo(S, n) ==
    IF n = 0 THEN {<<>>}
    ELSE LET shorter == SeqsUpTo(S, n - 1)
         IN  shorter \cup {Append(s, x) : s \in {t \in shorter : Len(t) = n - 1}, x \in S}

\* the number of urls in the url lists of a sequence of prefetch() calls
RECURSIVE handedOut(_)
handedOut(bs) ==
    IF bs = <<>> THEN 0 ELSE Len(Head(bs).urls) + handedOut(Tail(bs))

\* Python's range(start, stop, step) for step >= 1, as a sequence
RECURSIVE range(_, _, _)
range(start, stop, step) ==
    IF start >= stop THEN <<>>
    ELSE <<start>> \o range(start + step, stop, step)

\* faulty variant: the stride of the chunk is off by one
chunkWrongStride(urls, i, workers) ==
    LET js == range(i, Len(urls), workers + 1)
    IN  [m \in 1..Len(js) |-> urls[js[m] + 1]]

\* line 150: chunk = [urls[j] for j in range(i, len(urls), workers)]
chunk(urls, i, workers) ==
    LET js == range(i, Len(urls), workers)
    IN  [m \in 1..Len(js) |-> urls[js[m] + 1]]

\* faulty variant: one attempt too many
attemptsOffByOne == 4 + 1

\* line 124: for i in range(0, 4)
attempts == 4

\* line 129: `not page` as an integer; a Response is truthy iff its status is ok
notPage(page) == IF page = "ok" THEN 0 ELSE 1

\* line 134: page.text if page else r''
pageTextOrEmpty(page) == IF page = "ok" THEN Body ELSE Empty

\* faulty variant: the counter restarts from 0 after a cooldown
failuresAfterCooldownZero == 1 - 1

\* line 132: failures = 1
failuresAfterCooldown == 1

\* line 130: if (failures >= 3)
cooldownThreshold == 3

\* faulty variant: release() leaves the lock with its holder
releasedStillHeld(holder) == holder

\* Lock.release()
released(holder) == NoThread

\* faulty variant: the counter is not decremented
decrementedForgotten(n) == n

\* line 120: _activePrefetchers += 1
incremented(n) == n + 1

\* line 137: _activePrefetchers -= 1
decremented(n) == n - 1

(***************************************************************************)
(* State after the module is loaded (lines 112-115), main idle.            *)
(***************************************************************************)
NewPrefetcher(urls, batch, shard) ==
    [pc |-> "L118", urls |-> urls, k |-> 1, i |-> 0, page |-> "unset",
     failures |-> 0, batch |-> batch, shard |-> shard, hist |-> <<>>]

MainIdle == [pc |-> "idle", url |-> "none", ret |-> "none", src |-> "none", settled |-> FALSE]

Init ==
    /\ activePrefetchers = 0
    /\ activePrefetchersLock = NoThread
    /\ prefetchedPages = [u \in URLs |-> Absent]
    /\ prefetchingLock = NoThread
    /\ prefetchers = <<>>
    /\ main = MainIdle
    /\ batches = <<>>

(***************************************************************************)
(* prefetchPages(urls), lines 117-138, run by prefetcher thread w.         *)
(* Fields of a thread: pc; urls, the chunk it was started with; k, the     *)
(* position in urls of the `for url in urls` loop; i, page, failures, the  *)
(* locals of the same names; batch and shard, the prefetch() call and      *)
(* loop index that started it.  hist is a history variable: "F"/"S" for    *)
(* each url counted at line 129 as failed/fetched, "C" for each cooldown.  *)
(***************************************************************************)
Set(w, p) == prefetchers' = [prefetchers EXCEPT ![w] = p]

\* faulty variant: the loop over urls ends one url early
LoopHeadStopsEarly(p, k) ==
    IF k < Len(p.urls)
    THEN [p EXCEPT !.k = k, !.i = 0, !.page = "unset", !.pc = "L125"]
    ELSE [p EXCEPT !.k = k, !.i = 0, !.page = "unset", !.pc = "L136"]

\* the head of `for url in urls` (line 123): the next url, or past the loop
\* (where the locals i and page are dead)
LoopHead(p, k) ==
    IF k <= Len(p.urls)
    THEN [p EXCEPT !.k = k, !.i = 0, !.page = "unset", !.pc = "L125"]
    ELSE [p EXCEPT !.k = k, !.i = 0, !.page = "unset", !.pc = "L136"]

\* line 118: _activePrefetchersLock.acquire()
prefetchPages_L118(w) ==
    LET p == prefetchers[w] IN
    /\ p.pc = "L118"
    /\ activePrefetchersLock = NoThread
    /\ activePrefetchersLock' = w
    /\ Set(w, [p EXCEPT !.pc = "L120"])
    /\ UNCHANGED <<activePrefetchers, prefetchedPages, prefetchingLock, main, batches>>

\* line 120: _activePrefetchers += 1
prefetchPages_L120(w) ==
    LET p == prefetchers[w] IN
    /\ p.pc = "L120"
    /\ activePrefetchers' = incremented(activePrefetchers)
    /\ Set(w, [p EXCEPT !.pc = "L121"])
    /\ UNCHANGED <<activePrefetchersLock, prefetchedPages, prefetchingLock, main, batches>>

\* lines 121-123: release; failures = 0; enter the loop over urls
prefetchPages_L121(w) ==
    LET p == prefetchers[w] IN
    /\ p.pc = "L121"
    /\ activePrefetchersLock' = released(activePrefetchersLock)
    /\ Set(w, LoopHead([p EXCEPT !.failures = 0], 1))
    /\ UNCHANGED <<activePrefetchers, prefetchedPages, prefetchingLock, main, batches>>

\* lines 125-127: one requests.get(url, timeout=5); it raises (page = None,
\* go on to the sleep of line 128) or returns a response (break)
prefetchPages_L125(w) ==
    LET p == prefetchers[w] IN
    /\ p.pc = "L125"
    /\ \E o \in Outcomes :
          Set(w, [p EXCEPT !.page = o,
                           !.pc = IF o = "None" THEN "L128" ELSE "L129"])
    /\ UNCHANGED <<activePrefetchers, activePrefetchersLock, prefetchedPages,
                   prefetchingLock, main, batches>>

\* line 128: sleep(5), then the next i of range(0, 4) or the end of the loop
prefetchPages_L128(w) ==
    LET p == prefetchers[w] IN
    /\ p.pc = "L128"
    /\ Set(w, IF p.i + 1 < attempts
              THEN [p EXCEPT !.i = p.i + 1, !.pc = "L125"]
              ELSE [p EXCEPT !.pc = "L129"])
    /\ UNCHANGED <<activePrefetchers, activePrefetchersLock, prefetchedPages,
                   prefetchingLock, main, batches>>

\* lines 129-130: failures += not page; if (failures >= 3)
\* (the local i is dead from here on)
prefetchPages_L129(w) ==
    LET p == prefetchers[w]
        f == p.failures + notPage(p.page)
    IN
    /\ p.pc = "L129"
    /\ Set(w, [p EXCEPT !.failures = f, !.i = 0,
                        !.hist = Append(p.hist, IF notPage(p.page) = 1 THEN "F" ELSE "S"),
                        !.pc = IF f >= cooldownThreshold THEN "L131" ELSE "L133"])
    /\ UNCHANGED <<activePrefetchers, activePrefetchersLock, prefetchedPages,
                   prefetchingLock, main, batches>>

\* lines 131-132: sleep(10); failures = 1
prefetchPages_L131(w) ==
    LET p == prefetchers[w] IN
    /\ p.pc = "L131"
    /\ Set(w, [p EXCEPT !.failures = failuresAfterCooldown,
                        !.hist = Append(p.hist, "C"),
                        !.pc = "L133"])
    /\ UNCHANGED <<activePrefetchers, activePrefetchersLock, prefetchedPages,
                   prefetchingLock, main, batches>>

\* line 133: _prefetchingLock.acquire()
prefetchPages_L133(w) ==
    LET p == prefetchers[w] IN
    /\ p.pc = "L133"
    /\ prefetchingLock = NoThread
    /\ prefetchingLock' = w
    /\ Set(w, [p EXCEPT !.pc = "L134"])
    /\ UNCHANGED <<activePrefetchers, activePrefetchersLock, prefetchedPages, main, batches>>

\* line 134: _prefetchedPages[url] = page.text if page else r''
prefetchPages_L134(w) ==
    LET p == prefetchers[w] IN
    /\ p.pc = "L134"
    /\ prefetchedPages' = [prefetchedPages EXCEPT ![p.urls[p.k]] = pageTextOrEmpty(p.page)]
    /\ Set(w, [p EXCEPT !.pc = "L135"])
    /\ UNCHANGED <<activePrefetchers, activePrefetchersLock, prefetchingLock, main, batches>>

\* line 135: _prefetchingLock.release(), then the next url of the loop
prefetchPages_L135(w) ==
    LET p == prefetchers[w] IN
    /\ p.pc = "L135"
    /\ prefetchingLock' = released(prefetchingLock)
    /\ Set(w, LoopHead(p, p.k + 1))
    /\ UNCHANGED <<activePrefetchers, activePrefetchersLock, prefetchedPages, main, batches>>

\* line 136: _activePrefetchersLock.acquire()
prefetchPages_L136(w) ==
    LET p == prefetchers[w] IN
    /\ p.pc = "L136"
    /\ activePrefetchersLock = NoThread
    /\ activePrefetchersLock' = w
    /\ Set(w, [p EXCEPT !.pc = "L137"])
    /\ UNCHANGED <<activePrefetchers, prefetchedPages, prefetchingLock, main, batches>>

\* line 137: _activePrefetchers -= 1
prefetchPages_L137(w) ==
    LET p == prefetchers[w] IN
    /\ p.pc = "L137"
    /\ activePrefetchers' = decremented(activePrefetchers)
    /\ Set(w, [p EXCEPT !.pc = "L138"])
    /\ UNCHANGED <<activePrefetchersLock, prefetchedPages, prefetchingLock, main, batches>>

\* line 138: _activePrefetchersLock.release(); the thread ends
prefetchPages_L138(w) ==
    LET p == prefetchers[w] IN
    /\ p.pc = "L138"
    /\ activePrefetchersLock' = released(activePrefetchersLock)
    /\ Set(w, [p EXCEPT !.pc = "done"])
    /\ UNCHANGED <<activePrefetchers, prefetchedPages, prefetchingLock, main, batches>>

prefetchPages(w) ==
    \/ prefetchPages_L118(w)
    \/ prefetchPages_L120(w)
    \/ prefetchPages_L121(w)
    \/ prefetchPages_L125(w)
    \/ prefetchPages_L128(w)
    \/ prefetchPages_L129(w)
    \/ prefetchPages_L131(w)
    \/ prefetchPages_L133(w)
    \/ prefetchPages_L134(w)
    \/ prefetchPages_L135(w)
    \/ prefetchPages_L136(w)
    \/ prefetchPages_L137(w)
    \/ prefetchPages_L138(w)

(***************************************************************************)
(* prefetch(urls, workers), lines 148-152, called by the main thread at    *)
(* lines 305, 429 and 431.  The loop only starts threads, and a started    *)
(* thread touches nothing the loop reads, so the call is one step.         *)
(***************************************************************************)
prefetch(urls, workers) ==
    /\ main.pc = "idle"
    /\ Len(batches) < MaxBatches
    /\ Len(prefetchers) + workers <= MaxThreads
    /\ handedOut(batches) + Len(urls) <= MaxURLs
    /\ prefetchers' = prefetchers \o
          [n \in 1..workers |->
              NewPrefetcher(chunk(urls, n - 1, workers), Len(batches) + 1, n - 1)]
    /\ batches' = Append(batches, [urls |-> urls, workers |-> workers])
    /\ UNCHANGED <<activePrefetchers, activePrefetchersLock, prefetchedPages,
                   prefetchingLock, main>>

(***************************************************************************)
(* prefetchedPage(url), lines 140-146, called by the main thread at lines  *)
(* 194, 256 and 308.  main.ret and main.src keep what the last call        *)
(* returned and where it came from ("direct": line 144, "cache": line 146).*)
(* main.settled is a history variable: whether, when the call was made,    *)
(* url belonged to a prefetch() call all of whose threads had ended.       *)
(***************************************************************************)
\* the call
prefetchedPage_call(url) ==
    /\ main.pc = "idle"
    /\ main' = [pc |-> "L141", url |-> url, ret |-> "none", src |-> "none",
                settled |-> \E b \in 1..Len(batches) :
                               BatchCompleted(b) /\ url \in BatchURLs(b)]
    /\ UNCHANGED <<activePrefetchers, activePrefetchersLock, prefetchedPages,
                   prefetchingLock, prefetchers, batches>>

\* line 141, left operand of `and`: (not _activePrefetchers)
prefetchedPage_L141 ==
    /\ main.pc = "L141"
    /\ main' = [main EXCEPT !.pc = IF activePrefetchers = 0 THEN "L141b" ELSE "L145"]
    /\ UNCHANGED <<activePrefetchers, activePrefetchersLock, prefetchedPages,
                   prefetchingLock, prefetchers, batches>>

\* line 141, right operand of `and`: (url not in _prefetchedPages)
prefetchedPage_L141b ==
    /\ main.pc = "L141b"
    /\ main' = [main EXCEPT !.pc = IF prefetchedPages[main.url] = Absent
                                   THEN "L142" ELSE "L145"]
    /\ UNCHANGED <<activePrefetchers, activePrefetchersLock, prefetchedPages,
                   prefetchingLock, prefetchers, batches>>

\* faulty variant: the page the main thread fetched itself is recorded
prefetchedPage_L142_recording ==
    /\ main.pc = "L142"
    /\ \E o \in Outcomes :
          /\ main' = [main EXCEPT !.pc = "idle", !.ret = pageTextOrEmpty(o), !.src = "direct"]
          /\ prefetchedPages' = [prefetchedPages EXCEPT ![main.url] = pageTextOrEmpty(o)]
    /\ UNCHANGED <<activePrefetchers, activePrefetchersLock,
                   prefetchingLock, prefetchers, batches>>

\* lines 142-144: one requests.get(url, timeout=20); return its text, or r''
prefetchedPage_L142 ==
    /\ main.pc = "L142"
    /\ \E o \in Outcomes :
          main' = [main EXCEPT !.pc = "idle", !.ret = pageTextOrEmpty(o), !.src = "direct"]
    /\ UNCHANGED <<activePrefetchers, activePrefetchersLock, prefetchedPages,
                   prefetchingLock, prefetchers, batches>>

\* line 145: while (url not in _prefetchedPages): pass
\* (an iteration that finds the url missing changes nothing: a stuttering step)
prefetchedPage_L145 ==
    /\ main.pc = "L145"
    /\ prefetchedPages[main.url] # Absent
    /\ main' = [main EXCEPT !.pc = "L146"]
    /\ UNCHANGED <<activePrefetchers, activePrefetchersLock, prefetchedPages,
                   prefetchingLock, prefetchers, batches>>

\* line 146: return _prefetchedPages[url]
prefetchedPage_L146 ==
    /\ main.pc = "L146"
    /\ main' = [main EXCEPT !.pc = "idle", !.ret = prefetchedPages[main.url], !.src = "cache"]
    /\ UNCHANGED <<activePrefetchers, activePrefetchersLock, prefetchedPages,
                   prefetchingLock, prefetchers, batches>>

prefetchedPage ==
    \/ prefetchedPage_L141
    \/ prefetchedPage_L141b
    \/ prefetchedPage_L142
    \/ prefetchedPage_L145
    \/ prefetchedPage_L146

(***************************************************************************)
(* The program: the main thread calls prefetch() and prefetchedPage() in   *)
(* any order on any urls (the url lists of lines 304, 427-428 and 431 are  *)
(* scraped or read from a file and may repeat a url; nPrefetcherThreads    *)
(* may be 0, line 375), and the started prefetchers run.                   *)
(***************************************************************************)
Next ==
    \/ \E urls \in SeqsUpTo(URLs, MaxURLs), workers \in 0..MaxThreads : prefetch(urls, workers)
    \/ \E url \in URLs : prefetchedPage_call(url)
    \/ prefetchedPage_L141
    \/ prefetchedPage_L141b
    \/ prefetchedPage_L142
    \/ prefetchedPage_L145
    \/ prefetchedPage_L146
    \/ \E w \in Threads : prefetchPages_L118(w)
    \/ \E w \in Threads : prefetchPages_L120(w)
    \/ \E w \in Threads : prefetchPages_L121(w)
    \/ \E w \in Threads : prefetchPages_L125(w)
    \/ \E w \in Threads : prefetchPages_L128(w)
    \/ \E w \in Threads : prefetchPages_L129(w)
    \/ \E w \in Threads : prefetchPages_L131(w)
    \/ \E w \in Threads : prefetchPages_L133(w)
    \/ \E w \in Threads : prefetchPages_L134(w)
    \/ \E w \in Threads : prefetchPages_L135(w)
    \/ \E w \in Threads : prefetchPages_L136(w)
    \/ \E w \in Threads : prefetchPages_L137(w)
    \/ \E w \in Threads : prefetchPages_L138(w)

Spec == Init /\ [][Next]_vars

(***************************************************************************)
(* Fair scheduling: a thread that can take a step eventually takes it      *)
(* (the interpreter switches threads every few milliseconds, and every     *)
(* request and sleep is assumed to end).  The main thread need not start   *)
(* another call.                                                           *)
(***************************************************************************)
FairSpec ==
    /\ Spec
    /\ WF_vars(prefetchedPage)
    /\ \A w \in 1..MaxThreads : WF_vars(w \in Threads /\ prefetchPages(w))

(***************************************************************************)
(* One prefetcher alone: the state right after prefetch(urls, 1) started   *)
(* its only thread, for every chunk up to MaxChunk urls.                   *)
(***************************************************************************)
InitOne ==
    /\ activePrefetchers = 0
    /\ activePrefetchersLock = NoThread
    /\ prefetchedPages = [u \in URLs |-> Absent]
    /\ prefetchingLock = NoThread
    /\ \E urls \in SeqsUpTo(URLs, MaxChunk) :
          /\ prefetchers = <<NewPrefetcher(chunk(urls, 0, 1), 1, 0)>>
          /\ batches = <<[urls |-> urls, workers |-> 1]>>
    /\ main = MainIdle

NextOne ==
    \/ \E w \in Threads : prefetchPages_L118(w)
    \/ \E w \in Threads : prefetchPages_L120(w)
    \/ \E w \in Threads : prefetchPages_L121(w)
    \/ \E w \in Threads : prefetchPages_L125(w)
    \/ \E w \in Threads : prefetchPages_L128(w)
    \/ \E w \in Threads : prefetchPages_L129(w)
    \/ \E w \in Threads : prefetchPages_L131(w)
    \/ \E w \in Threads : prefetchPages_L133(w)
    \/ \E w \in Threads : prefetchPages_L134(w)
    \/ \E w \in Threads : prefetchPages_L135(w)
    \/ \E w \in Threads : prefetchPages_L136(w)
    \/ \E w \in Threads : prefetchPages_L137(w)
    \/ \E w \in Threads : prefetchPages_L138(w)

SpecOne == InitOne /\ [][NextOne]_vars

(***************************************************************************)
(* The end of the script (line 441 is its last statement).  The threads    *)
(* are started with daemon=True (line 151) and nothing joins them: when    *)
(* the main thread runs off the end of the script the interpreter exits    *)
(* and every prefetcher that has not ended is abandoned where it stands.   *)
(***************************************************************************)
interpreterExit ==
    /\ main.pc = "idle"
    /\ main' = [main EXCEPT !.pc = "exited"]
    /\ prefetchers' = [w \in Threads |->
                          IF prefetchers[w].pc = "done" THEN prefetchers[w]
                          ELSE [prefetchers[w] EXCEPT !.pc = "abandoned"]]
    /\ UNCHANGED <<activePrefetchers, activePrefetchersLock, prefetchedPages,
                   prefetchingLock, batches>>

NextExit ==
    \/ \E urls \in SeqsUpTo(URLs, MaxURLs), workers \in 0..MaxThreads : prefetch(urls, workers)
    \/ \E url \in URLs : prefetchedPage_call(url)
    \/ prefetchedPage_L141
    \/ prefetchedPage_L141b
    \/ prefetchedPage_L142
    \/ prefetchedPage_L145
    \/ prefetchedPage_L146
    \/ \E w \in Threads : prefetchPages_L118(w)
    \/ \E w \in Threads : prefetchPages_L120(w)
    \/ \E w \in Threads : prefetchPages_L121(w)
    \/ \E w \in Threads : prefetchPages_L125(w)
    \/ \E w \in Threads : prefetchPages_L128(w)
    \/ \E w \in Threads : prefetchPages_L129(w)
    \/ \E w \in Threads : prefetchPages_L131(w)
    \/ \E w \in Threads : prefetchPages_L133(w)
    \/ \E w \in Threads : prefetchPages_L134(w)
    \/ \E w \in Threads : prefetchPages_L135(w)
    \/ \E w \in Threads : prefetchPages_L136(w)
    \/ \E w \in Threads : prefetchPages_L137(w)
    \/ \E w \in Threads : prefetchPages_L138(w)
    \/ interpreterExit

SpecExit == Init /\ [][NextExit]_vars

\* fair scheduling as in FairSpec; the script need not end
FairSpecExit ==
    /\ SpecExit
    /\ WF_vars(prefetchedPage)
    /\ \A w \in 1..MaxThreads : WF_vars(w \in Threads /\ prefetchPages(w))

(***************************************************************************)
(*                    The main thread's sequential code                    *)
(*                                                                         *)
(* The specifications below follow the main thread through one function at *)
(* a time.  `main` is then a record of the function's position (pc) and    *)
(* locals; the prefetching state stays as the module load left it.         *)
(***************************************************************************)
shared == <<activePrefetchers, activePrefetchersLock, prefetchedPages,
            prefetchingLock, prefetchers, batches>>

SharedInit ==
    /\ activePrefetchers = 0
    /\ activePrefetchersLock = NoThread
    /\ prefetchedPages = [u \in URLs |-> Absent]
    /\ prefetchingLock = NoThread
    /\ prefetchers = <<>>
    /\ batches = <<>>

\* the elements of a sequence
Elements(s) == {s[j] : j \in 1..Len(s)}

(***************************************************************************)
(* deduplicatedList(l), lines 84-91.                                       *)
(***************************************************************************)
\* the loop of lines 87-90 from position k on
RECURSIVE deduplicatedListLoop(_, _, _, _)
deduplicatedListLoop(l, k, knownValues, result) ==
    IF k > Len(l) THEN result
    ELSE IF l[k] \in knownValues
         THEN deduplicatedListLoop(l, k + 1, knownValues, result)
         ELSE deduplicatedListLoop(l, k + 1, knownValues \cup {l[k]}, Append(result, l[k]))

\* faulty variant: only a repeat of the value just before it is dropped
RECURSIVE deduplicatedListAdjacentLoop(_, _, _)
deduplicatedListAdjacentLoop(l, k, result) ==
    IF k > Len(l) THEN result
    ELSE IF k > 1 /\ l[k] = l[k - 1]
         THEN deduplicatedListAdjacentLoop(l, k + 1, result)
         ELSE deduplicatedListAdjacentLoop(l, k + 1, Append(result, l[k]))

deduplicatedListAdjacent(l) == deduplicatedListAdjacentLoop(l, 1, <<>>)

deduplicatedList(l) == deduplicatedListLoop(l, 1, {}, <<>>)

\* the values of the lists (urls at line 313, tuples at line 420)
Values == {"a", "b", "c"}

\* deduplicatedList() is called on any list, then on what it returned
InitDedup ==
    /\ SharedInit
    /\ \E l \in SeqsUpTo(Values, MaxList) :
          main = [pc |-> "call", l |-> l, result |-> <<>>, arg |-> <<>>]

deduplicatedList_call ==
    /\ main.pc = "call"
    /\ main' = [main EXCEPT !.pc = "returned", !.arg = main.l,
                            !.result = deduplicatedList(main.l)]
    /\ UNCHANGED shared

deduplicatedList_again ==
    /\ main.pc = "returned"
    /\ main' = [main EXCEPT !.pc = "returned again", !.arg = main.result,
                            !.result = deduplicatedList(main.result)]
    /\ UNCHANGED shared

NextDedup ==
    \/ deduplicatedList_call
    \/ deduplicatedList_again

SpecDedup == InitDedup /\ [][NextDedup]_vars

(***************************************************************************)
(* entries(baseURL, t, nPrefetcherThreads, isList), lines 293-317, and     *)
(* what the caller does with the list it returns (lines 411-424).          *)
(*                                                                         *)
(* A list page is what the scan reads of it: the hrefs of its entry links  *)
(* (line 311) and the ratings of its user-rating divs (line 314), none or  *)
(* one per entry link.  prefetchedPage() is taken to return; what it       *)
(* returns for a page is r'' or any list page; after MaxPages pages that   *)
(* added entries the next one ends the scan.  The calls of prefetch() are  *)
(* noted in main.prefetched, their threads are not followed.  main.shown   *)
(* is history: the (link, rating) pairs the pages that added entries       *)
(* displayed, in page order; the k-th rating block of a page is the one of *)
(* its k-th entry link, and an entry of a page without ratings shows r''.  *)
(***************************************************************************)
Hrefs == {"/a-t1/", "/b-1a-temporada-t2/"}

Ratings == {"3.0", "4.5"}

\* line 316: re.sub(r'^/', r'https://filmow.com/', url)
absoluteURL(href) ==
    CASE href = "/a-t1/" -> "https://filmow.com/a-t1/"
      [] href = "/b-1a-temporada-t2/" -> "https://filmow.com/b-1a-temporada-t2/"
      [] OTHER -> href

\* lines 93-97: the last but one of the parts of the name is 'temporada'
isSeasonURL(url) == url \in {"/b-1a-temporada-t2/", "https://filmow.com/b-1a-temporada-t2/"}

\* the first character of the strings the title types are written with
FirstLetter(s) ==
    CASE s \in {"filmes/", "film"} -> "f"
      [] s = "curtas/" -> "c"
      [] s \in {"series/", "series", "short"} -> "s"
      [] s = "tv/" -> "t"
      [] s = "?" -> "?"

\* line 295
typeHint(t) ==
    IF FirstLetter(t) \in {"s", "t"} THEN "series"
    ELSE IF FirstLetter(t) = "c" THEN "short"
    ELSE IF FirstLetter(t) = "f" THEN "film"
    ELSE ""

\* lines 355 and 381-384: the title types of the default and of -S, -l, -s, -f
TitleTypeOptions ==
    { <<"filmes/", "curtas/", "series/", "tv/">>,
      <<"series/", "tv/">>,
      <<"filmes/">>,
      <<"curtas/">>,
      <<"filmes/", "curtas/">> }

ListPages ==
    { [text |-> Body, hrefs |-> h, ratings |-> r] :
        h \in SeqsUpTo(Hrefs, MaxPerPage), r \in SeqsUpTo(Ratings, MaxPerPage) }

\* what prefetchedPage() returns when the page could not be fetched: r''
EmptyPage == [text |-> Empty, hrefs |-> <<>>, ratings |-> <<>>]

\* the list pages with no rating or one rating for each entry link
PageBodies == {b \in ListPages : Len(b.ratings) \in {0, Len(b.hrefs)}}

\* line 307: for i in range(1, 10000)
scanStop == 10000

Min(a, b) == IF a <= b THEN a ELSE b

Last(s) == s[Len(s)]

\* the call entries(baseURL, t, n, isList): line 415 (or 413, 417) calls it
\* with a title type, line 419 with r'?' and isList
InitScan ==
    /\ SharedInit
    /\ \E t \in {"filmes/", "curtas/", "series/", "tv/", "?"} :
          main = [pc |-> "L295", t |-> t, isList |-> (t = "?"), i |-> 0,
                  page |-> EmptyPage, urls |-> <<>>, ratings |-> <<>>,
                  looked |-> <<>>, stopped |-> 0, shown |-> <<>>,
                  prefetched |-> <<>>, result |-> <<>>, handed |-> <<>>]

\* lines 295-306: the title type is rewritten, the first page requested
\* (line 297: an exception ends the call with []), its page count read, and
\* the pages handed to prefetch() when there are more than one
entries_L295 ==
    /\ main.pc = "L295"
    /\ \/ main' = [main EXCEPT !.pc = "returned", !.t = typeHint(main.t)]
       \/ \E totalPages \in 0..MaxPages, nPrefetcherThreads \in 0..MaxThreads :
             main' = [main EXCEPT
                        !.pc = "L308", !.t = typeHint(main.t), !.i = 1,
                        !.prefetched =
                            IF totalPages > 1
                            THEN <<[urls |-> totalPages,
                                    workers |-> Min(totalPages, nPrefetcherThreads)]>>
                            ELSE <<>>]
    /\ UNCHANGED shared

\* faulty variant: a page is not compared with the urls found so far
stopsScanOnEmptyOnly(page, urls) ==
    IF page.text = Empty THEN TRUE
    ELSE page.hrefs = <<>>

\* lines 309 and 312: the page is r'', or has no entry link, or its last
\* entry link is the last url found so far
stopsScan(page, urls) ==
    IF page.text = Empty THEN TRUE
    ELSE IF page.hrefs = <<>> THEN TRUE
    ELSE urls # <<>> /\ Last(page.hrefs) = Last(urls)

\* lines 308-314: one turn of the loop over the pages
entries_L308 ==
    /\ main.pc = "L308"
    /\ main.i < scanStop
    /\ \E page \in {EmptyPage} \cup PageBodies :
          LET foundURLs == page.hrefs
              stop == stopsScan(page, main.urls)
          IN
          /\ IF main.i <= MaxPages THEN TRUE ELSE stop    \* the site has MaxPages pages to add
          /\ main' = IF stop
                     THEN [main EXCEPT !.pc = "L316", !.stopped = main.i, !.page = page,
                                       !.looked = Append(main.looked, main.i)]
                     ELSE [main EXCEPT
                             !.pc = IF main.i + 1 < scanStop THEN "L308" ELSE "L316",
                             !.i = main.i + 1, !.page = page,
                             !.looked = Append(main.looked, main.i),
                             !.urls = main.urls \o deduplicatedList(foundURLs),
                             !.ratings = main.ratings \o page.ratings,
                             !.shown = main.shown \o
                                 [k \in 1..Len(foundURLs) |->
                                    <<foundURLs[k],
                                      IF page.ratings = <<>> THEN ""
                                      ELSE page.ratings[k]>>]]
    /\ UNCHANGED shared

\* lines 316-317: the urls made absolute and paired with the ratings;
\* ratings[i] raises IndexError when there are fewer ratings than urls
entries_L316 ==
    /\ main.pc = "L316"
    /\ LET urls == [j \in 1..Len(main.urls) |-> absoluteURL(main.urls[j])] IN
       main' = IF main.ratings # <<>>
               THEN IF Len(main.ratings) >= Len(urls)
                    THEN [main EXCEPT !.pc = "returned", !.urls = urls,
                            !.result = [j \in 1..Len(urls) |-> <<urls[j], main.ratings[j], main.t>>]]
                    ELSE [main EXCEPT !.pc = "IndexError", !.urls = urls]
               ELSE [main EXCEPT !.pc = "returned", !.urls = urls,
                       !.result = [j \in 1..Len(urls) |-> <<urls[j], "", main.t>>]]
    /\ UNCHANGED shared

\* lines 413, 415, 417: watched += entries(...) (and watchlist, favorites)
main_L413 ==
    /\ main.pc = "returned"
    /\ ~main.isList
    /\ main' = [main EXCEPT !.pc = "collected", !.handed = main.handed \o main.result]
    /\ UNCHANGED shared

\* lines 419-424: the tuples of a list deduplicated, then the seasons
\* dropped or marked as series
main_L419 ==
    /\ main.pc = "returned"
    /\ main.isList
    /\ \E titleTypes \in TitleTypeOptions :
          LET listEntries == deduplicatedList(main.result)
              notSeason(e) == ~isSeasonURL(e[1])
          IN
          main' = [main EXCEPT
                     !.pc = "collected",
                     !.handed =
                        IF "series/" \notin Elements(titleTypes)
                        THEN SelectSeq(listEntries, notSeason)
                        ELSE [j \in 1..Len(listEntries) |->
                                <<listEntries[j][1], listEntries[j][2],
                                  IF isSeasonURL(listEntries[j][1]) THEN "series"
                                  ELSE listEntries[j][3]>>]]
    /\ UNCHANGED shared

NextScan ==
    \/ entries_L295
    \/ entries_L308
    \/ entries_L316
    \/ main_L413
    \/ main_L419

SpecScan == InitScan /\ [][NextScan]_vars

(***************************************************************************)
(* collect(partialEntries, outputFile, titleTypes, total), lines 248-283.  *)
(*                                                                         *)
(* An entry page is what the extractors read of it: the active menu item   *)
(* (titleType(), line 234; "series" stands for the accented word of line   *)
(* 237), the running time (runtime(), digits or none)                      *)
(* and the year of the world premiere (year(), or none); the title and the *)
(* directors are one fixed text each.  prefetchedPage() is taken to        *)
(* return: r'' or any entry page; yearFromDatesPage() returns a year or   *)
(* r''.                                                                    *)
(***************************************************************************)
EntryURLs == {"https://filmow.com/a-t1/", "https://filmow.com/b-1a-temporada-t2/"}

\* the title type a tuple comes with: line 295, line 424, or r'' (line 410)
Hints == {"", "series", "film", "short"}

EntryTuples == {<<u, r, h>> : u \in EntryURLs, r \in {"", "4.5"}, h \in Hints}

EntryPages ==
    { [text |-> Body, active |-> a, runtime |-> r, year |-> y] :
        a \in {"series", "tv", "filmes", ""}, r \in {"", "30", "90"}, y \in {"", "1999"} }

\* an entry page that could not be fetched
NoEntryPage == [text |-> Empty, active |-> "", runtime |-> "", year |-> ""]

\* int(runtime) < 45, for the running times of EntryPages
UnderFortyFive(runtime) == runtime = "30"

\* lines 233-242
titleType(entryPage, runtime) ==
    IF entryPage.active = "series" THEN "series"
    ELSE IF entryPage.active = "tv" THEN "series"
    ELSE IF entryPage.active = "filmes"
         THEN IF runtime # "" /\ UnderFortyFive(runtime) THEN "short" ELSE "film"
    ELSE ""

\* line 434: titleTypes = set([t[0] for t in titleTypes])
firstLetters(titleTypes) == {FirstLetter(titleTypes[j]) : j \in 1..Len(titleTypes)}

\* lines 254 and 265: titleType_ and (titleType_[0] not in titleTypes)
filteredOut(titleType_, titleTypes) ==
    titleType_ # "" /\ FirstLetter(titleType_) \notin titleTypes

NoRows ==
    [Title |-> <<>>, Year |-> <<>>, Directors |-> <<>>, Rating |-> <<>>,
     Runtime |-> <<>>, Review |-> <<>>, TitleType |-> <<>>, URL |-> <<>>]

\* faulty variant: an entry without a rating gets no cell in the Rating column
withRowUnlessUnrated(entries, row) ==
    [Title |-> Append(entries.Title, row.Title),
     Year |-> Append(entries.Year, row.Year),
     Directors |-> Append(entries.Directors, row.Directors),
     Rating |-> IF row.Rating = "" THEN entries.Rating ELSE Append(entries.Rating, row.Rating),
     Runtime |-> Append(entries.Runtime, row.Runtime),
     Review |-> Append(entries.Review, row.Review),
     TitleType |-> Append(entries.TitleType, row.TitleType),
     URL |-> Append(entries.URL, row.URL)]

\* lines 266-276: the eight appends
withRow(entries, row) ==
    [Title |-> Append(entries.Title, row.Title),
     Year |-> Append(entries.Year, row.Year),
     Directors |-> Append(entries.Directors, row.Directors),
     Rating |-> Append(entries.Rating, row.Rating),
     Runtime |-> Append(entries.Runtime, row.Runtime),
     Review |-> Append(entries.Review, row.Review),
     TitleType |-> Append(entries.TitleType, row.TitleType),
     URL |-> Append(entries.URL, row.URL)]

\* collect() is called with any tuples and the letters of any of the title
\* type options; main.option keeps the option the letters came from, and
\* main.fetched whether the last turn of the loop got to line 256
InitCollect ==
    /\ SharedInit
    /\ \E partialEntries \in SeqsUpTo(EntryTuples, MaxEntries), option \in TitleTypeOptions :
          main = [pc |-> "L252", partialEntries |-> partialEntries,
                  option |-> option, titleTypes |-> firstLetters(option),
                  i |-> 0, titleType_ |-> "", entryPage |-> NoEntryPage,
                  fetched |-> FALSE, entries |-> NoRows, csv |-> NoRows]

\* lines 252-276: one turn of the loop, for the tuple partialEntries[i]
collect_L252 ==
    /\ main.pc = "L252"
    /\ main.i < Len(main.partialEntries)
    /\ LET url == main.partialEntries[main.i + 1][1]
           rating == main.partialEntries[main.i + 1][2]
           hint == main.partialEntries[main.i + 1][3]
       IN
       IF filteredOut(hint, main.titleTypes)
       THEN \* line 254: continue
            main' = [main EXCEPT !.i = main.i + 1, !.titleType_ = hint, !.fetched = FALSE]
       ELSE \E entryPage \in {NoEntryPage} \cup EntryPages, datesPageYear \in {"", "2001"} :
              LET runtime_ == entryPage.runtime
                  titleType_ == IF hint = "" THEN titleType(entryPage, runtime_) ELSE hint
                  year_ == entryPage.year
                  row == [Title |-> "title",
                          Year |-> IF year_ # "" THEN year_ ELSE datesPageYear,
                          Directors |-> "directors",
                          Rating |-> rating,
                          Runtime |-> runtime_,
                          Review |-> "",
                          TitleType |-> titleType_,
                          URL |-> url]
              IN
              IF entryPage.text = Empty
              THEN \* lines 256-260: continue
                   /\ datesPageYear = ""
                   /\ main' = [main EXCEPT !.i = main.i + 1, !.titleType_ = hint,
                                           !.entryPage = entryPage, !.fetched = TRUE]
              ELSE IF filteredOut(titleType_, main.titleTypes)
              THEN \* line 265: continue
                   /\ datesPageYear = ""
                   /\ main' = [main EXCEPT !.i = main.i + 1, !.titleType_ = titleType_,
                                           !.entryPage = entryPage, !.fetched = TRUE]
              ELSE /\ year_ # "" => datesPageYear = ""
                   /\ main' = [main EXCEPT !.i = main.i + 1, !.titleType_ = titleType_,
                                           !.entryPage = entryPage, !.fetched = TRUE,
                                           !.entries = withRow(main.entries, row)]
    /\ UNCHANGED shared

\* lines 277-281: after the loop the table is written
collect_L277 ==
    /\ main.pc = "L252"
    /\ main.i = Len(main.partialEntries)
    /\ main' = [main EXCEPT !.pc = "returned", !.csv = main.entries]
    /\ UNCHANGED shared

NextCollect ==
    \/ collect_L252
    \/ collect_L277

SpecCollect == InitCollect /\ [][NextCollect]_vars

(***************************************************************************)
(* The script, lines 352-442.                                              *)
(*                                                                         *)
(* The command line is any list of up to MaxArgs of the words below.  Of   *)
(* the lists of entries the script keeps their lengths only, and of an     *)
(* entries() call (followed line by line in SpecScan) what the script sees *)
(* of it: whether its first request raised, the prefetch() call it made,   *)
(* how many pages it looked up and how many entries it returned.           *)
(* prefetchedPage() and collect() are taken to return.  main.prefetched    *)
(* notes the worker counts of the prefetch() calls, main.network whether   *)
(* a request has been made, main.csv the tables written.                   *)
(***************************************************************************)
Words == {"-h", "-t", "0", "2", "x", "-s", "-w", "-y", "dir",
          "user", "list-l1", "urls.txt", "locked.txt", "no target"}

\* path.isdir(word), path.isfile(word)
isdir(word) == word = "dir"

isfile(word) == word \in {"urls.txt", "locked.txt"}

\* open(word).read() works
readable(word) == word = "urls.txt"

\* word.startswith(r'-')
startsWithDash(word) == word \in {"-h", "-t", "-s", "-w", "-y"}

\* line 374: re.match(r'^[0-9]{1,2}$', option)
matchesThreadCount(option) == option \in {"0", "2"}

\* line 377: int(option), for the options that match
int(option) == IF option = "0" THEN 0 ELSE 2

\* lines 325-339: what parseTarget() takes its argument for
targetKind(target) ==
    IF target = "no target" THEN "invalid"       \* no pattern matches: line 338
    ELSE IF target = "list-l1" THEN "list"       \* line 333
    ELSE "user"                                  \* line 335: any other word

\* Python's round(n * 0.15): to the nearest integer, a tie to the even one
round15(n) ==
    LET q == (15 * n) \div 100
        r == (15 * n) % 100
    IN  IF r < 50 THEN q
        ELSE IF r > 50 THEN q + 1
        ELSE IF q % 2 = 0 THEN q ELSE q + 1

\* line 431: the workers of the dates pages
datesWorkers(nPrefetcherThreads) == 1 + round15(nPrefetcherThreads)

\* the settings of lines 354-358, and main.exit: the status the command
\* line parsing exits with, -1 while it has not
Defaults ==
    [exit |-> -1, outputPath |-> "cwd", nextOptionIsN |-> FALSE,
     titleTypes |-> <<"filmes/", "curtas/", "series/", "tv/">>,
     userCollections |-> <<"W", "w", "F">>,
     nPrefetcherThreads |-> 15,
     tryFetchingYearFromDatesPages |-> TRUE]

\* lines 373-387: the loop over argv[1:-1], from the k-th option on
RECURSIVE parseOptions(_, _, _)
parseOptions(options, k, s) ==
    IF k > Len(options) THEN s
    ELSE LET option == options[k] IN
         IF s.nextOptionIsN
         THEN IF ~matchesThreadCount(option)
              THEN [s EXCEPT !.exit = 2]
              ELSE parseOptions(options, k + 1,
                       [s EXCEPT !.nPrefetcherThreads = int(option), !.nextOptionIsN = FALSE])
         ELSE IF option = "-s" THEN parseOptions(options, k + 1, [s EXCEPT !.titleTypes = <<"curtas/">>])
         ELSE IF option = "-w" THEN parseOptions(options, k + 1, [s EXCEPT !.userCollections = <<"w">>])
         ELSE IF option = "-y"
              THEN parseOptions(options, k + 1, [s EXCEPT !.tryFetchingYearFromDatesPages = FALSE])
         ELSE IF option = "-t" THEN parseOptions(options, k + 1, [s EXCEPT !.nextOptionIsN = TRUE])
         ELSE parseOptions(options, k + 1, s)     \* line 387: at most a warning

\* lines 361-387
parseCommandLine(args) ==
    IF args = <<>> THEN [Defaults EXCEPT !.exit = 0]
    ELSE IF args[1] = "-h" THEN [Defaults EXCEPT !.exit = 0]
    ELSE IF Len(args) >= 2
    THEN LET before == args[Len(args) - 1]
             options == SubSeq(args, 1, Len(args) - 1)
         IN  IF isdir(before)
             THEN parseOptions(options, 1, [Defaults EXCEPT !.outputPath = before])
             ELSE IF ~startsWithDash(before)
             THEN [Defaults EXCEPT !.exit = 1]
             ELSE parseOptions(options, 1, Defaults)
    ELSE Defaults

\* lines 411-417: the entries() calls of a user's library, in their order
RECURSIVE scansOf(_, _, _)
scansOf(titleTypes, k, userCollections) ==
    IF k > Len(titleTypes) THEN <<>>
    ELSE [c \in 1..Len(userCollections) |->
             [titleType |-> titleTypes[k], collection |-> userCollections[c]]]
         \o scansOf(titleTypes, k + 1, userCollections)

\* what a call entries(baseURL, t, n, isList) can come to: its first request
\* raises (line 298), or the page says totalPages and the scan looks up
\* `lookups` pages and returns `found` entries
ScanOutcomes ==
    {[reached |-> FALSE, totalPages |-> 0, lookups |-> 0, found |-> 0]}
    \cup {[reached |-> TRUE, totalPages |-> tp, lookups |-> f + 1, found |-> f] :
            tp \in 1..MaxPages, f \in 0..MaxFound}

NoScan == [reached |-> TRUE, totalPages |-> 0, lookups |-> 0, found |-> 0]

\* lines 303-305: the prefetch() call of an entries() call
pagesPrefetch(outcome, nPrefetcherThreads) ==
    IF outcome.reached /\ outcome.totalPages > 1
    THEN {[what |-> "pages", workers |-> Min(outcome.totalPages, nPrefetcherThreads)]}
    ELSE {}

InitMain ==
    /\ SharedInit
    /\ \E args \in SeqsUpTo(Words, MaxArgs) :
          main = [pc |-> "L361", args |-> args, status |-> -1,
                  titleTypes |-> Defaults.titleTypes,
                  userCollections |-> Defaults.userCollections,
                  nPrefetcherThreads |-> Defaults.nPrefetcherThreads,
                  tryFetchingYearFromDatesPages |-> TRUE,
                  isUserNotList |-> "unset", probe |-> "none",
                  scans |-> <<>>, scanned |-> 0, lastScan |-> NoScan,
                  watched |-> 0, watchlist |-> 0, favorites |-> 0, listEntries |-> 0,
                  prefetched |-> {}, network |-> FALSE, csv |-> {}]

\* lines 361-387: the command line
main_L361 ==
    /\ main.pc = "L361"
    /\ LET s == parseCommandLine(main.args) IN
       main' = IF s.exit >= 0
               THEN [main EXCEPT !.pc = "exited", !.status = s.exit, !.args = <<>>]
               ELSE [main EXCEPT !.pc = "L390",
                                 !.args = <<Last(main.args)>>,   \* the rest is not read again
                                 !.titleTypes = s.titleTypes,
                                 !.userCollections = s.userCollections,
                                 !.nPrefetcherThreads = s.nPrefetcherThreads,
                                 !.tryFetchingYearFromDatesPages = s.tryFetchingYearFromDatesPages]
    /\ UNCHANGED shared

\* lines 390-397 with parseTarget(), lines 323-346.  An invalid target
\* leaves name None: stderr.write(name) raises TypeError and the script
\* ends with status 1.  For a valid one requests.head() is tried; whatever
\* comes of it, parseTarget() returns the result.
main_L390 ==
    /\ main.pc = "L390"
    /\ LET target == Last(main.args) IN
       IF isfile(target)
       THEN main' = [main EXCEPT !.pc = "L402", !.isUserNotList = "file"]
       ELSE IF targetKind(target) = "invalid"
       THEN main' = [main EXCEPT !.pc = "exited", !.status = 1, !.args = <<>>]
       ELSE \E test \in {"ok", "exception", "status 404"} :
               main' = [main EXCEPT !.pc = "L402", !.isUserNotList = targetKind(target),
                                    !.args = <<>>,    \* baseURL and name take its place
                                    !.probe = test, !.network = TRUE]
    /\ UNCHANGED shared

\* lines 402-410: a file of urls is read; line 411: the scans of a library
\* are set out; a list goes on to its one scan
main_L402 ==
    /\ main.pc = "L402"
    /\ LET target == Last(main.args) IN
       IF main.isUserNotList = "file"
       THEN IF ~readable(target)
            THEN main' = [main EXCEPT !.pc = "exited", !.status = 3, !.args = <<>>]
            ELSE \E lines \in 0..MaxFound :
                    main' = [main EXCEPT !.pc = "L427", !.listEntries = lines, !.args = <<>>]
       ELSE IF main.isUserNotList = "user"
       THEN main' = [main EXCEPT !.pc = "L412",
                                 !.scans = scansOf(main.titleTypes, 1, main.userCollections)]
       ELSE main' = [main EXCEPT !.pc = "L420"]
    /\ UNCHANGED shared

\* faulty variant: a collection that cannot be reached ends the script
main_L412_aborting ==
    /\ main.pc = "L412"
    /\ main.scanned < Len(main.scans)
    /\ \E outcome \in ScanOutcomes :
          LET collection == main.scans[main.scanned + 1].collection IN
          main' = IF ~outcome.reached
                  THEN [main EXCEPT !.pc = "exited", !.status = 3,
                                    !.scanned = main.scanned + 1,
                                    !.lastScan = outcome, !.network = TRUE]
                  ELSE [main EXCEPT
                     !.scanned = main.scanned + 1,
                     !.lastScan = outcome,
                     !.network = TRUE,
                     !.prefetched = main.prefetched
                                    \cup pagesPrefetch(outcome, main.nPrefetcherThreads),
                     !.watched = IF collection = "W" THEN main.watched + outcome.found
                                 ELSE main.watched,
                     !.watchlist = IF collection = "w" THEN main.watchlist + outcome.found
                                   ELSE main.watchlist,
                     !.favorites = IF collection = "F" THEN main.favorites + outcome.found
                                   ELSE main.favorites]
    /\ UNCHANGED shared

\* lines 412-417: the next entries() call of a library and its +=
main_L412 ==
    /\ main.pc = "L412"
    /\ main.scanned < Len(main.scans)
    /\ \E outcome \in ScanOutcomes :
          LET collection == main.scans[main.scanned + 1].collection IN
          main' = [main EXCEPT
                     !.scanned = main.scanned + 1,
                     !.lastScan = outcome,
                     !.network = TRUE,
                     !.prefetched = main.prefetched
                                    \cup pagesPrefetch(outcome, main.nPrefetcherThreads),
                     !.watched = IF collection = "W" THEN main.watched + outcome.found
                                 ELSE main.watched,
                     !.watchlist = IF collection = "w" THEN main.watchlist + outcome.found
                                   ELSE main.watchlist,
                     !.favorites = IF collection = "F" THEN main.favorites + outcome.found
                                   ELSE main.favorites]
    /\ UNCHANGED shared

\* the end of the loop of line 411
main_L418 ==
    /\ main.pc = "L412"
    /\ main.scanned = Len(main.scans)
    /\ main' = [main EXCEPT !.pc = "L427"]
    /\ UNCHANGED shared

\* lines 420-424: the one entries() call of a list; the deduplication and
\* the season filter keep some of what it found
main_L420 ==
    /\ main.pc = "L420"
    /\ \E outcome \in ScanOutcomes, kept \in 0..MaxFound :
          /\ kept <= outcome.found
          /\ outcome.found > 0 /\ "series/" \in Elements(main.titleTypes) => kept > 0
          /\ main' = [main EXCEPT
                        !.pc = "L427",
                        !.lastScan = outcome,
                        !.network = TRUE,
                        !.prefetched = main.prefetched
                                       \cup pagesPrefetch(outcome, main.nPrefetcherThreads),
                        !.listEntries = kept]
    /\ UNCHANGED shared

\* lines 427-431: the entry pages are handed to prefetch(), and the dates
\* pages unless -y was given
main_L427 ==
    /\ main.pc = "L427"
    /\ main' = [main EXCEPT
                  !.pc = "L434",
                  !.prefetched =
                      main.prefetched
                      \cup {[what |-> "entries", workers |-> main.nPrefetcherThreads]}
                      \cup (IF main.tryFetchingYearFromDatesPages
                            THEN {[what |-> "dates",
                                   workers |-> datesWorkers(main.nPrefetcherThreads)]}
                            ELSE {})]
    /\ UNCHANGED shared

\* lines 434-439: collect() for each list that is not empty
main_L434 ==
    /\ main.pc = "L434"
    /\ main' = [main EXCEPT
                  !.pc = "L442",
                  !.network = (main.network \/ main.listEntries + main.watched
                                                + main.watchlist + main.favorites > 0),
                  !.csv = {name \in {"list", "watched", "watchlist", "favorites"} :
                             \/ name = "list" /\ main.listEntries > 0
                             \/ name = "watched" /\ main.watched > 0
                             \/ name = "watchlist" /\ main.watchlist > 0
                             \/ name = "favorites" /\ main.favorites > 0}]
    /\ UNCHANGED shared

\* line 442: "Done!", and the script ends
main_L442 ==
    /\ main.pc = "L442"
    /\ main' = [main EXCEPT !.pc = "exited", !.status = 0]
    /\ UNCHANGED shared

NextMain ==
    \/ main_L361
    \/ main_L390
    \/ main_L402
    \/ main_L412
    \/ main_L418
    \/ main_L420
    \/ main_L427
    \/ main_L434
    \/ main_L442

SpecMain == InitMain /\ [][NextMain]_vars

(***************************************************************************)
(*                              The claims                                 *)
(***************************************************************************)
Present(u) == prefetchedPages[u] # Absent

\* thread w executes line 134 in this step
Records(w) == prefetchers[w].pc = "L134" /\ prefetchers'[w].pc = "L135"

\* the url thread w is working on
CurrentURL(w) == prefetchers[w].urls[prefetchers[w].k]

\* C1: the prefetch cache is write-once: once a url is a key of
\* _prefetchedPages its value never changes, and no thread records a url
\* that is already a key.
C1_WriteOnce ==
    [][ /\ \A u \in URLs : Present(u) => prefetchedPages'[u] = prefetchedPages[u]
        /\ \A w \in Threads : Records(w) => ~Present(CurrentURL(w)) ]_vars

\* C2: every prefetchedPage(url) call of the main thread eventually returns
\* (under fair scheduling, every request and sleep ending).
C2_LookupReturns == (main.pc # "idle") ~> (main.pc = "idle")

\* the urls handed to a prefetch() call that started at least one thread
Dispatched ==
    UNION {BatchURLs(b) : b \in {c \in 1..Len(batches) : batches[c].workers >= 1}}

\* C3: prefetchedPage(url) never makes its own request (line 142) for a url
\* that was handed to prefetch().
C3_NoDirectFetchOfDispatched ==
    main.pc = "L142" => main.url \notin Dispatched

\* C4: once all threads of a prefetch() call have ended, every url of the
\* call is recorded, a prefetchedPage() of it makes no request and returns
\* the recorded value, and no value the main thread got from the cache for
\* that url earlier differs from the recorded one.
C4_CompletedBatchIsFinal ==
    /\ \A b \in 1..Len(batches) : BatchCompleted(b) =>
          \A u \in BatchURLs(b) :
              /\ Present(u)
              /\ (main.url = u /\ main.src = "cache") => main.ret = prefetchedPages[u]
    /\ main.settled =>
          /\ main.pc # "L142"
          /\ main.pc = "idle" => main.src = "cache" /\ main.ret = prefetchedPages[main.url]

\* the pcs of a thread that has executed line 120 and not yet line 137
Counted == {"L121", "L125", "L128", "L129", "L131", "L133", "L134", "L135", "L136", "L137"}

\* thread w can take a step, or waits for a lock whose holder can take one
CanProceed(w) ==
    \/ ENABLED prefetchPages(w)
    \/ /\ prefetchers[w].pc \in {"L118", "L136"}
       /\ activePrefetchersLock \in Threads \ {w}
       /\ ENABLED prefetchPages(activePrefetchersLock)
    \/ /\ prefetchers[w].pc = "L133"
       /\ prefetchingLock \in Threads \ {w}
       /\ ENABLED prefetchPages(prefetchingLock)

\* C5: _activePrefetchers equals the number of threads between their
\* increment and their decrement; it is never negative, never more than the
\* threads started, and 0 once every started thread has ended; a thread
\* that has not ended is never stuck, whatever its fetches returned (every
\* step moves a thread forward in its code, so it reaches its decrement).
C5_CounterBalanced ==
    /\ activePrefetchers = Cardinality({w \in Threads : prefetchers[w].pc \in Counted})
    /\ activePrefetchers >= 0
    /\ activePrefetchers <= Len(prefetchers)
    /\ (\A w \in Threads : prefetchers[w].pc = "done") => activePrefetchers = 0
    /\ \A w \in Threads : prefetchers[w].pc # "done" => CanProceed(w)

\* two threads have ended, one of them after a url that failed
C5_Witness ==
    /\ Len(prefetchers) = 2
    /\ \A w \in Threads : prefetchers[w].pc = "done"
    /\ \E w \in Threads : prefetchers[w].hist = <<"F">>
    /\ activePrefetchers = 0

Holds(w, lock) == lock = w

\* the pcs at which a request or a sleep is in progress
Waiting == {"L125", "L128", "L131"}

C6_States ==
    \A w \in Threads :
        /\ prefetchers[w].pc \in Waiting =>
              ~Holds(w, activePrefetchersLock) /\ ~Holds(w, prefetchingLock)
        /\ ~(Holds(w, activePrefetchersLock) /\ Holds(w, prefetchingLock))

C6_Steps ==
    /\ prefetchedPages' # prefetchedPages =>
          \E w \in Threads : Records(w) /\ Holds(w, prefetchingLock)
    /\ activePrefetchers' # activePrefetchers =>
          \E w \in Threads : /\ prefetchers[w].pc \in {"L120", "L137"}
                             /\ prefetchers'[w].pc # prefetchers[w].pc
                             /\ Holds(w, activePrefetchersLock)

\* C6: _prefetchedPages is written and _activePrefetchers is changed only by
\* a thread holding the lock of that variable; no thread holds a lock while
\* a request, a 5 s delay or a 10 s cooldown is in progress; no thread holds
\* both locks.
C6_LockDiscipline == []C6_States /\ [][C6_Steps]_vars

\* a thread is about to record a page while another is in a request
C6_Witness ==
    \E v, w \in Threads :
        /\ prefetchers[v].pc = "L134" /\ Holds(v, prefetchingLock)
        /\ prefetchers[w].pc = "L125"

C7_States ==
    \A w \in Threads :
        LET p == prefetchers[w] IN
        \* a request is made only as attempt 1..4, and a further one only
        \* after requests that all raised
        /\ p.pc = "L125" =>
              /\ p.i \in 0..3
              /\ p.page = (IF p.i = 0 THEN "unset" ELSE "None")
        /\ p.pc = "L128" => p.i \in 0..3 /\ p.page = "None"
        \* the loop is left after at least one request, and with page = None
        \* only after the fourth
        /\ p.pc = "L129" =>
              /\ p.page \in Outcomes
              /\ p.i \in 0..3
              /\ p.page = "None" => p.i = 3

C7_Steps ==
    \A w \in Threads :
        LET p == prefetchers[w]
            q == prefetchers'[w]
        IN
        \* the first request that does not raise ends the loop
        /\ (p.pc = "L125" /\ q.pc # "L125" /\ q.page # "None") => q.pc = "L129" /\ q.k = p.k
        \* a url whose requests all raised is recorded as r''
        /\ (Records(w) /\ p.page = "None") => prefetchedPages'[CurrentURL(w)] = Empty
        \* and the thread goes on with the next url of its chunk, if any
        /\ (p.pc = "L135" /\ q.pc # "L135") =>
              /\ q.k = p.k + 1
              /\ q.pc = (IF p.k < Len(p.urls) THEN "L125" ELSE "L136")
        \* the thread ends only by returning from line 138
        /\ (q.pc = "done" /\ p.pc # "done") => p.pc = "L138" /\ p.k = Len(p.urls) + 1

\* C7: for each url of its chunk a thread makes 1 to 4 requests, a further
\* one only after a request that raised, none after one that did not; if all
\* 4 raised it records r'' and goes on to the next url; it ends only at the
\* end of prefetchPages.
C7_BoundedRetry == []C7_States /\ [][C7_Steps]_vars

\* a thread has recorded r'' for its first url, whose 4 requests all raised,
\* and has a second url to go on with
C7_Witness ==
    \E w \in Threads :
        LET p == prefetchers[w] IN
        /\ p.pc = "L135" /\ p.k = 1 /\ p.page = "None"
        /\ Len(p.urls) >= 2
        /\ prefetchedPages[p.urls[1]] = Empty

\* the first three urls of thread w were counted as failures
FirstThreeFail(w) ==
    LET h == prefetchers[w].hist IN
    Len(h) >= 3 /\ h[1] = "F" /\ h[2] = "F" /\ h[3] = "F"

C8_States ==
    \A w \in Threads :
        LET p == prefetchers[w]
            h == p.hist
        IN
        FirstThreeFail(w) =>
            \* the cooldown follows the third failure, before the third url
            \* is recorded and the fourth is requested
            /\ \/ Len(h) = 3 /\ p.pc = "L131" /\ p.k = 3
               \/ Len(h) >= 4 /\ h[4] = "C"
            /\ (Len(h) = 4 /\ p.pc \in {"L133", "L134", "L135"}) => p.failures = 1
            \* the next cooldown comes after two more failures, not one
            /\ (Len(h) >= 5 /\ h[5] = "F") =>
                  /\ p.pc # "L131" \/ Len(h) > 5
                  /\ Len(h) >= 6 => h[6] # "C"
            /\ (Len(h) >= 6 /\ h[5] = "F" /\ h[6] = "F") =>
                  \/ Len(h) = 6 /\ p.pc = "L131"
                  \/ Len(h) >= 7 /\ h[7] = "C"

C8_Steps ==
    \A w \in Threads :
        (prefetchers[w].pc = "L131" /\ prefetchers'[w].pc # "L131") =>
            prefetchers'[w].failures = 1

\* C8: when the first three urls of a thread fail, the third failure is
\* followed by the cooldown before the fourth url is requested, failures is
\* 1 after the cooldown, and the next cooldown comes after two more failures.
C8_CooldownTrigger == []C8_States /\ [][C8_Steps]_vars

\* five urls failed in a row: cooldowns after the third and the fifth
C8_Witness ==
    \E w \in Threads : prefetchers[w].hist = <<"F", "F", "F", "C", "F", "F", "C">>

\* C9: a thread takes a cooldown after a url only if that url failed and no
\* fetched url lies between the failures that brought the counter to 3: the
\* two events before the cooldown are failures, and the one before them is a
\* failure or the previous cooldown.
C9_ConsecutiveFailuresOnly ==
    \A w \in Threads :
        LET h == prefetchers[w].hist IN
        \A n \in 1..Len(h) :
            h[n] = "C" =>
                /\ n >= 4
                /\ h[n-1] = "F"
                /\ h[n-2] = "F"
                /\ h[n-3] \in {"F", "C"}

\* the urls at the 0-based positions i, i + workers, i + 2*workers, ... of urls
Interleaved(urls, i, workers) ==
    LET count == Cardinality({j \in 0..(Len(urls) - 1) : j % workers = i})
    IN  [m \in 1..count |-> urls[i + (m - 1) * workers + 1]]

\* the positions range(i, n, workers) visits
Visited(i, n, workers) ==
    LET js == range(i, n, workers) IN {js[m] : m \in 1..Len(js)}

\* C10: prefetch(urls, workers) with workers >= 1 starts exactly `workers`
\* threads, thread i with the urls at positions i, i + workers, ... in that
\* order; every position of urls is in exactly one chunk.
C10_RoundRobinShards ==
    \A b \in 1..Len(batches) :
        LET urls == batches[b].urls
            workers == batches[b].workers
        IN
        workers >= 1 =>
            /\ Cardinality(ThreadsOf(b)) = workers
            /\ \A i \in 0..(workers - 1) :
                  \E w \in ThreadsOf(b) :
                      /\ prefetchers[w].shard = i
                      /\ prefetchers[w].urls = Interleaved(urls, i, workers)
            /\ \A j \in 0..(Len(urls) - 1) :
                  Cardinality({i \in 0..(workers - 1) : j \in Visited(i, Len(urls), workers)}) = 1

\* three urls were dealt to two threads
C10_Witness ==
    \E b \in 1..Len(batches) :
        /\ batches[b].workers = 2
        /\ Len(batches[b].urls) = 3
        /\ \E w \in ThreadsOf(b) : Len(prefetchers[w].urls) = 2
        /\ \E w \in ThreadsOf(b) : Len(prefetchers[w].urls) = 1

(***************************************************************************)
(* C11                                                                     *)
(***************************************************************************)
\* the b-th prefetch() call was made with at least one worker
Launched(b) == b <= Len(batches) /\ batches[b].workers >= 1

\* every url of the b-th prefetch() call is a key and all its threads ended
Completed(b) ==
    /\ b <= Len(batches)
    /\ \A u \in BatchURLs(b) : Present(u)
    /\ \A w \in ThreadsOf(b) : prefetchers[w].pc = "done"

\* a step that is a prefetch() call
Dispatches == Len(batches') = Len(batches) + 1

\* prefetch() returns with every thread it started still before its first
\* line, and the main thread free to go on
C11_Steps ==
    Dispatches =>
        /\ main'.pc = "idle"
        /\ \A w \in 1..Len(prefetchers') :
              prefetchers'[w].batch = Len(batches') => prefetchers'[w].pc = "L118"

\* C11 as stated: prefetch() returns without waiting for a thread, and after
\* prefetch(urls, workers) with workers >= 1, under fair scheduling,
\* eventually every url of urls is a key of _prefetchedPages and every
\* thread the call started has ended.
C11_BatchCompletes ==
    /\ [][C11_Steps]_vars
    /\ \A b \in 1..MaxBatches : Launched(b) ~> Completed(b)

\* C11, amended: ... eventually every url of urls is a key and every thread
\* the call started has ended, unless the script ends first (the threads are
\* daemon threads: the exit of the interpreter abandons them).
C11_BatchCompletesUnlessExit ==
    /\ [][C11_Steps]_vars
    /\ \A b \in 1..MaxBatches : Launched(b) ~> (Completed(b) \/ main.pc = "exited")

\* a call with two workers and two different urls has completed while the
\* script is still running
C11_Witness ==
    /\ Launched(1)
    /\ batches[1].workers = 2
    /\ Cardinality(BatchURLs(1)) = 2
    /\ Completed(1)
    /\ main.pc # "exited"

(***************************************************************************)
(* C12                                                                     *)
(***************************************************************************)
\* a step of the main thread inside prefetchedPage(), the call included
LookupStep == main' # main

\* the request of line 142 is made in this step
DirectFetch == main.pc = "L142" /\ main'.pc # "L142"

C12_Steps ==
    \* prefetchedPage() writes nothing that is shared
    /\ LookupStep =>
          /\ prefetchedPages' = prefetchedPages
          /\ activePrefetchers' = activePrefetchers
          /\ activePrefetchersLock' = activePrefetchersLock
          /\ prefetchingLock' = prefetchingLock
    \* it reads the counter first; a counter of 0 leads to the test of the
    \* key, and only a missing key leads to the request
    /\ (main.pc = "L141" /\ LookupStep) =>
          main'.pc = IF activePrefetchers = 0 THEN "L141b" ELSE "L145"
    /\ (main.pc = "L141b" /\ LookupStep) =>
          main'.pc = IF prefetchedPages[main.url] = Absent THEN "L142" ELSE "L145"
    /\ (main'.pc = "L141b" /\ LookupStep) => (main.pc = "L141" /\ activePrefetchers = 0)
    /\ (main'.pc = "L142" /\ LookupStep) =>
          (main.pc = "L141b" /\ prefetchedPages[main.url] = Absent)
    \* one request, then the return of its text or of r''
    /\ DirectFetch =>
          /\ main'.pc = "idle"
          /\ main'.src = "direct"
          /\ main'.ret \in {Body, Empty}
    \* every other return is the return of the recorded value
    /\ (main.pc \notin {"idle", "L142"} /\ main'.pc = "idle") =>
          /\ main.pc = "L146"
          /\ main'.src = "cache"
          /\ main'.ret = prefetchedPages[main.url]
    \* a key is added by a prefetcher at line 134 only
    /\ \A u \in URLs :
          (~Present(u) /\ prefetchedPages'[u] # Absent) =>
              \E w \in Threads : Records(w) /\ CurrentURL(w) = u

\* C12: prefetchedPage() never modifies shared state: when it finds no
\* prefetcher active and the url missing it makes exactly one request of its
\* own and returns the result (r'' on failure), leaving _prefetchedPages and
\* _activePrefetchers as they were; otherwise it makes no request.  Only
\* prefetchers add keys to _prefetchedPages.
C12_LookupFrame == [][C12_Steps]_vars

\* the main thread has made its own request, which failed, and the url is
\* still missing
C12_Witness ==
    /\ main.pc = "idle"
    /\ main.src = "direct"
    /\ main.ret = Empty
    /\ ~Present(main.url)

(***************************************************************************)
(* C13                                                                     *)
(***************************************************************************)
\* the position of the first occurrence of x in l
FirstIndex(l, x) == CHOOSE j \in 1..Len(l) : l[j] = x /\ \A h \in 1..(j - 1) : l[h] # x

\* r holds every distinct element of l exactly once, in the order of the
\* first occurrences in l, and nothing else
StableDedupOf(r, l) ==
    /\ Elements(r) = Elements(l)
    /\ \A i, j \in 1..Len(r) : i # j => r[i] # r[j]
    /\ \A i, j \in 1..Len(r) : i < j => FirstIndex(l, r[i]) < FirstIndex(l, r[j])

\* C13: deduplicatedList(l) holds each distinct element of l exactly once, in
\* first-occurrence order, and nothing that is not in l; applied to its own
\* result it returns that result.
C13_DedupStableIdempotent ==
    /\ main.pc = "returned" => StableDedupOf(main.result, main.l)
    /\ main.pc = "returned again" => (main.result = main.arg /\ StableDedupOf(main.result, main.l))

\* a list with a repeat that is not adjacent went through both calls
C13_Witness ==
    /\ main.pc = "returned again"
    /\ main.l = <<"a", "b", "a", "c">>
    /\ main.result = <<"a", "b", "c">>

(***************************************************************************)
(* C14                                                                     *)
(***************************************************************************)
\* the urls of a list of (url, rating, title type) tuples
URLsOf(tuples) == [j \in 1..Len(tuples) |-> tuples[j][1]]

\* C14: the list of entries a scan hands on for collect() holds no url
\* twice, whatever the scanned pages of a library or of a list were (also
\* when a page repeats an entry of an earlier page, and when the repeat has
\* another rating), and its urls are in the order they were first seen.
C14_NoURLTwice ==
    main.pc = "collected" =>
        LET urls == URLsOf(main.handed) IN
        /\ \A i, j \in 1..Len(urls) : i # j => urls[i] # urls[j]
        /\ \A i, j \in 1..Len(urls) :
              i < j => FirstIndex(main.urls, urls[i]) < FirstIndex(main.urls, urls[j])

(***************************************************************************)
(* C15                                                                     *)
(***************************************************************************)
\* collect() goes through one tuple in this step
CollectStep == main.pc = "L252" /\ main'.i = main.i + 1

\* the tuple of that step
Tuple == main.partialEntries[main.i + 1]

\* that step appends a row
RowAppended == Len(main'.entries.URL) = Len(main.entries.URL) + 1

\* that step looked the entry page up and got r''
EmptyBody == main'.fetched /\ main'.entryPage.text = Empty

\* what each option is to let through: everything by default, series for
\* -S, feature films for -l, shorts for -s, films of any length for -f
AllowedBy(option, type) ==
    CASE option = <<"filmes/", "curtas/", "series/", "tv/">> -> TRUE
      [] option = <<"series/", "tv/">> -> type = "series"
      [] option = <<"filmes/">> -> type = "film"
      [] option = <<"curtas/">> -> type = "short"
      [] option = <<"filmes/", "curtas/">> -> type \in {"film", "short"}

\* C15: under each option, an entry whose title type (the one it comes with,
\* or else the one read from its page) is series, film or short gets a row
\* exactly when the option allows that type, and an entry of unknown type is
\* never filtered out (entries whose page could not be fetched aside).
C15_TypeFilter ==
    [][ (CollectStep /\ ~EmptyBody) =>
          IF main'.titleType_ \in {"series", "film", "short"}
          THEN RowAppended <=> AllowedBy(main.option, main'.titleType_)
          ELSE RowAppended ]_vars

(***************************************************************************)
(* C16                                                                     *)
(***************************************************************************)
Columns == {"Title", "Year", "Directors", "Rating", "Runtime", "Review", "TitleType", "URL"}

\* the tuple of the step passes both tests of the title type (lines 254 and
\* 265) and its page was fetched
Passes ==
    /\ ~filteredOut(Tuple[3], main.titleTypes)
    /\ main'.fetched
    /\ main'.entryPage.text # Empty
    /\ ~filteredOut(IF Tuple[3] # "" THEN Tuple[3]
                    ELSE titleType(main'.entryPage, main'.entryPage.runtime),
                    main.titleTypes)

C16_States ==
    main.pc \in {"L252", "returned"} =>
        /\ \A c \in Columns : Len(main.entries[c]) = Len(main.entries.URL)
        /\ Len(main.entries.URL) <= main.i
        /\ main.pc = "returned" =>
              /\ main.i = Len(main.partialEntries)
              /\ main.csv = main.entries

C16_Steps ==
    CollectStep =>
        /\ main'.pc = "L252"
        /\ \A c \in Columns :
              /\ Len(main'.entries[c]) = Len(main.entries[c]) + (IF Passes THEN 1 ELSE 0)
              /\ \A j \in 1..Len(main.entries[c]) : main'.entries[c][j] = main.entries[c][j]
        /\ Passes =>
              /\ Last(main'.entries.URL) = Tuple[1]
              /\ Last(main'.entries.Rating) = Tuple[2]
              /\ Last(main'.entries.TitleType) = main'.titleType_

\* C16: collect() appends exactly one row for each tuple that passes the
\* title type tests and whose page is not r'', in the order of the tuples; a
\* tuple whose page is r'' gets no row and the loop goes on; after each
\* tuple the eight columns have the same length, and the rows appended
\* before are unchanged.
C16_RowAccumulation == []C16_States /\ [][C16_Steps]_vars

\* of two tuples the first got r'' and the second a row
C16_Witness ==
    /\ main.pc = "returned"
    /\ main.option = <<"filmes/", "curtas/", "series/", "tv/">>
    /\ Len(main.partialEntries) = 2
    /\ main.partialEntries[1][1] # main.partialEntries[2][1]
    /\ main.csv.URL = <<main.partialEntries[2][1]>>

(***************************************************************************)
(* C19                                                                     *)
(***************************************************************************)
\* a page is looked up in this step
LooksUp == Len(main'.looked) = Len(main.looked) + 1

\* the page looked up in this step is r'', or has no entry link, or ends
\* with the url that is the last of those found before
EndsScan ==
    \/ main'.page.text = Empty
    \/ main'.page.hrefs = <<>>
    \/ /\ main.urls # <<>>
       /\ main'.page.hrefs[Len(main'.page.hrefs)] = main.urls[Len(main.urls)]

C19_States ==
    /\ main.looked = [j \in 1..Len(main.looked) |-> j]
    /\ Len(main.looked) < scanStop

C19_Steps ==
    /\ LooksUp =>
          /\ main.pc = "L308"
          /\ main'.looked = Append(main.looked, Len(main.looked) + 1)
          /\ EndsScan =>
                /\ main'.pc = "L316"
                /\ main'.urls = main.urls
                /\ main'.ratings = main.ratings
          /\ ~EndsScan =>
                /\ main'.pc = "L308"
                /\ Len(main'.urls) > Len(main.urls)
    /\ main.pc # "L308" => ~LooksUp

\* C19: entries() looks the list pages up one at a time in the order 1, 2,
\* 3, ...; it stops at the first page that is r'', or has no entry link, or
\* whose last entry link is the last url found so far; that page adds
\* nothing, no page is looked up after it, and there are at most 9999
\* lookups.
C19_ScanOrderAndStop == []C19_States /\ [][C19_Steps]_vars

\* the scan ended at page 2, which repeated the last link of page 1
C19_Witness ==
    /\ main.pc = "L316"
    /\ main.looked = <<1, 2>>
    /\ main.page.text = Body
    /\ main.page.hrefs # <<>>
    /\ Len(main.urls) = 2
    /\ Last(main.page.hrefs) = Last(main.urls)

(***************************************************************************)
(* C17                                                                     *)
(***************************************************************************)
\* the request of parseTarget() raised or was answered with an error status
ProbeFailed == main.probe \in {"exception", "status 404"}

\* C17: when the request that tests the target fails (it raises, or the
\* status is not one of 200..203) the script exits with a non-zero status
\* before it scans a collection, calls prefetch() or writes a table; and a
\* target that cannot be parsed makes it exit with a non-zero status before
\* any request.
C17_AbortOnUnreachableTarget ==
    /\ [](ProbeFailed =>
            /\ main.scanned = 0
            /\ main.lastScan = NoScan
            /\ main.prefetched = {}
            /\ main.csv = {}
            /\ main.pc = "exited" => main.status > 0)
    /\ [][ /\ (main.pc = "L390" /\ ProbeFailed') =>
               (main'.pc = "exited" /\ main'.status > 0)
           /\ (main.pc = "L390" /\ ~isfile(Last(main.args))
                                /\ targetKind(Last(main.args)) = "invalid") =>
               (main'.pc = "exited" /\ main'.status > 0 /\ ~main'.network) ]_vars

(***************************************************************************)
(* C18                                                                     *)
(***************************************************************************)
\* an entries() call is made in this step
ScanStep ==
    \/ main.pc = "L412" /\ main'.scanned = main.scanned + 1
    \/ main.pc = "L420" /\ main'.pc # "L420"

\* the lists that are not empty
Filled ==
    {name \in {"list", "watched", "watchlist", "favorites"} :
        \/ name = "list" /\ main.listEntries > 0
        \/ name = "watched" /\ main.watched > 0
        \/ name = "watchlist" /\ main.watchlist > 0
        \/ name = "favorites" /\ main.favorites > 0}

C18_States ==
    main.isUserNotList \in {"user", "list"} =>
        \* the script does not stop before its end, which is "Done!"
        /\ main.pc # "exited" => ENABLED NextMain
        /\ main.pc = "exited" => main.status = 0
        \* past the loop every collection asked for has had its scan
        /\ (main.isUserNotList = "user" /\ main.pc \in {"L427", "L434", "L442", "exited"}) =>
              /\ main.scanned = Len(main.scans)
              /\ Len(main.scans) = Len(main.titleTypes) * Len(main.userCollections)
        \* and every list that is not empty has been written
        /\ main.pc = "exited" => main.csv = Filled

C18_Steps ==
    (ScanStep /\ ~main'.lastScan.reached) =>
        /\ main'.pc \in {"L412", "L427"}
        /\ main'.prefetched = main.prefetched
        /\ main'.lastScan.lookups = 0
        /\ main'.watched = main.watched
        /\ main'.watchlist = main.watchlist
        /\ main'.favorites = main.favorites
        /\ main'.listEntries = main.listEntries

\* C18: when the first page of a collection cannot be reached, the scan of
\* that collection returns [] without a prefetch() call or a lookup, the
\* other collections asked for are still scanned and written, and the
\* script gets to "Done!".
C18_UnreachableCollectionIsLocal == []C18_States /\ [][C18_Steps]_vars

\* the last collection of a library could not be reached; the script ended
\* with "Done!" and wrote what the others had
C18_Witness ==
    /\ main.isUserNotList = "user"
    /\ ~main.lastScan.reached
    /\ main.scanned > 1
    /\ main.pc = "exited"
    /\ main.status = 0
    /\ main.csv # {}

(***************************************************************************)
(* C20                                                                     *)
(***************************************************************************)
\* C20: every prefetch() call is made with at least one worker (a thread
\* count of 0 being refused at the command line), so the entry pages are
\* never handed to prefetch() with no worker while the dates pages (always
\* at least one worker) are being fetched.
C20_AtLeastOneWorker ==
    \A call \in main.prefetched : call.workers >= 1

(***************************************************************************)
(* C21                                                                     *)
(***************************************************************************)
\* C21: in a scan, after every page the ratings accumulated are as many as
\* the urls accumulated whenever a rating was found; building the tuples
\* never indexes past the end of the ratings; and every tuple returned
\* carries a rating its entry was displayed with on a scanned page (r'' when
\* its page displayed none).  This is to hold also when a page repeats an
\* entry link and when a page has no rating block for its entry links while
\* another page has them.
C21_RatingAlignment ==
    /\ main.pc \in {"L308", "L316"} =>
          (main.ratings # <<>> => Len(main.ratings) = Len(main.urls))
    /\ main.pc # "IndexError"
    /\ main.pc = "returned" =>
          \A j \in 1..Len(main.result) :
             \E k \in 1..Len(main.shown) :
                /\ absoluteURL(main.shown[k][1]) = main.result[j][1]
                /\ main.shown[k][2] = main.result[j][2]

=============================================================================
